---- MODULE Spec2Model ----
(***************************************************************************)
(* Model of the task/agent scheduling engine of ai_agent_orchestrator.py:  *)
(* the agent and task registries of AIOrchestrator, agent selection, the   *)
(* orchestration loop and the per-task retry sequence                      *)
(* (_execute_task_safely around AIAgent.execute_task).                     *)
(*                                                                         *)
(* Python objects are modelled as heap cells: agentObjs and taskObjs hold  *)
(* every AIAgent / Task object ever created, the registries (dicts, in     *)
(* insertion order) map identifiers to cells.  A retry sequence keeps the  *)
(* references it was given, also after the registry entry is overwritten.  *)
(*                                                                         *)
(* asyncio runs one coroutine at a time and switches only at an await that *)
(* suspends, so every action below is the code between two suspensions.    *)
(* success_rate is a float in the source; it is modelled exactly, as a     *)
(* reduced fraction <<numerator, denominator>>.                            *)
(***************************************************************************)
EXTENDS Integers, Sequences, FiniteSets, TLC

VARIABLES
    now,         \* the wall clock read by datetime.now()
    agentObjs,   \* heap of AIAgent objects
    agents,      \* AIOrchestrator.agents: sequence of [key, ref], insertion order
    taskObjs,    \* heap of Task objects
    tasks,       \* AIOrchestrator.tasks: sequence of [key, ref], insertion order
    runs,        \* per Task object: the coroutine _execute_task_safely created for it
    is_running,  \* AIOrchestrator.is_running
    loop,        \* the coroutine run_orchestration_loop: [pc, wake], and the
                 \* number of exceptions its except block has caught
    outcomes,    \* history: per Task object, its Executor calls
                 \* [calls, first_ok, after_stop, backoff]
    recorded,    \* history: per AIAgent object, the results recorded [ok, all]
    selection,   \* history: per Task object, the agents its selection read and
                 \* how many times a selection returned an agent for it
    verification_codes,  \* SMSOnboardingSystem.verification_codes: a dict
                 \* phone_number -> [code, expires, attempts]
    sending,     \* the send_verification_sms coroutines suspended in _send_sms
    smsHistory   \* history: the last call on the SMSOnboardingSystem and its
                 \* result, and per phone number the code issued last and the
                 \* submissions compared with it

vars == <<now, agentObjs, agents, taskObjs, tasks, runs, is_running, loop,
          outcomes, recorded, selection, verification_codes, sending,
          smsHistory>>

\* The state of the AIOrchestrator and of the SMSOnboardingSystem; the two
\* objects share nothing but the clock
orchestratorVars == <<agentObjs, agents, taskObjs, tasks, runs, is_running, loop,
                      outcomes, recorded, selection>>

smsVars == <<verification_codes, sending, smsHistory>>

----------------------------------------------------------------------------
(* Bounds of the model *)

MaxAgentObjs == 2
MaxTaskObjs == 2
MaxTime == 10

\* Bounds of the specification SpecLoop: fewer objects and a later horizon,
\* so that the loop's 30 s sleep ends within it
LoopAgentObjs == 1
LoopTaskObjs == 1
LoopHorizon == 40

\* The SMS system: coroutines waiting for the provider at one time, the
\* minutes one step of the clock takes, and the last minute
MaxSending == 1
SmsTick == 5
SmsHorizon == 15

\* Bound of the specification SpecOutcomes: the Executor results recorded on
\* one agent, more than the 10 the monitor asks for
MaxOutcomes == 12

(* Inputs *)

\* The AgentConfig values register_agent is called with.  The first and the
\* third tie on priority, the second has a lower one; a threshold of 0 is
\* always met, the others are missed after a failure; retry_attempts covers
\* no retry, one and two.
Configs ==
    { [agent_id |-> "A", priority |-> 2, capabilities |-> {"X"},
       success_threshold |-> 50, retry_attempts |-> 1],
      [agent_id |-> "B", priority |-> 1, capabilities |-> {"X", "Y"},
       success_threshold |-> 90, retry_attempts |-> 2],
      [agent_id |-> "B", priority |-> 2, capabilities |-> {"X", "Y"},
       success_threshold |-> 0, retry_attempts |-> 0] }

\* The Task values schedule_task is called with: two of one type due at
\* once, one of another type, one due later.
TaskInputs ==
    { [task_id |-> "t1", task_type |-> "X", execution_time |-> 0, tz_aware |-> FALSE],
      [task_id |-> "t2", task_type |-> "X", execution_time |-> 0, tz_aware |-> FALSE],
      [task_id |-> "t2", task_type |-> "Y", execution_time |-> 0, tz_aware |-> FALSE],
      [task_id |-> "t1", task_type |-> "X", execution_time |-> 10, tz_aware |-> FALSE] }

\* An AgentConfig with retry_attempts = 3, as the first of main has
PatientConfigs ==
    { [agent_id |-> "A", priority |-> 1, capabilities |-> {"X"},
       success_threshold |-> 0, retry_attempts |-> 3] }

\* A Task whose execution_time is a timezone-aware datetime: datetime.now()
\* is naive, and comparing the two raises TypeError.
AwareTaskInputs ==
    { [task_id |-> "t1", task_type |-> "X", execution_time |-> 0, tz_aware |-> TRUE] }

None == "None"
NoRef == 0

\* What one call of the Executor (_execute_by_type) can do.
ExecResults == {"true", "false", "raise"}

----------------------------------------------------------------------------
(* Exact arithmetic on success_rate *)

RECURSIVE GCD(_, _)
GCD(a, b) == IF b = 0 THEN a ELSE GCD(b, a % b)

Frac(n, d) == LET g == GCD(n, d) IN <<n \div g, d \div g>>

FracLess(p, q) == p[1] * q[2] < q[1] * p[2]

FracGeqInt(p, k) == p[1] >= k * p[2]

----------------------------------------------------------------------------
(* Dict helpers: a dict is a sequence of [key, ref] in insertion order *)

Keys(d) == { d[i].key : i \in 1..Len(d) }

Refs(d) == { d[i].ref : i \in 1..Len(d) }

Lookup(d, k) == LET i == CHOOSE i \in 1..Len(d) : d[i].key = k IN d[i].ref

\* d[k] = r : an existing key keeps its position and gets the new value.
DictSet(d, k, r) ==
    IF k \in Keys(d)
    THEN [i \in 1..Len(d) |-> IF d[i].key = k THEN [key |-> k, ref |-> r] ELSE d[i]]
    ELSE Append(d, [key |-> k, ref |-> r])

----------------------------------------------------------------------------
(* AIAgent *)

\* AIAgent.__init__
NewAgent(cfg) ==
    [agent_id |-> cfg.agent_id,
     priority |-> cfg.priority,
     capabilities |-> cfg.capabilities,
     success_threshold |-> cfg.success_threshold,
     retry_attempts |-> cfg.retry_attempts,
     executed_tasks |-> 0,
     success_rate |-> <<100, 1>>,
     last_execution |-> now,
     is_active |-> TRUE]

\* Variant: the old rate is weighted by n instead of n - 1
UpdateSuccessRateOverweight(n, rate, success) ==
    IF n = 0
    THEN IF success THEN <<100, 1>> ELSE <<0, 1>>
    ELSE Frac(rate[1] * n + (IF success THEN 100 ELSE 0) * rate[2],
              rate[2] * n)

\* Variant: with executed_tasks 0 the rate is kept
UpdateSuccessRateKeepingInitial(n, rate, success) ==
    IF n = 0
    THEN rate
    ELSE Frac(rate[1] * (n - 1) + (IF success THEN 100 ELSE 0) * rate[2],
              rate[2] * n)

\* AIAgent._update_success_rate, on an agent whose executed_tasks is n
UpdateSuccessRate(n, rate, success) ==
    IF n = 0
    THEN IF success THEN <<100, 1>> ELSE <<0, 1>>
    ELSE Frac(rate[1] * (n - 1) + (IF success THEN 100 ELSE 0) * rate[2],
              rate[2] * n)

\* Variant: an Executor call that raises is not recorded on the agent
AgentAfterRaiseUnrecorded(a, res) ==
    IF res = "true"
    THEN [a EXCEPT !.executed_tasks = @ + 1,
                   !.success_rate = UpdateSuccessRate(a.executed_tasks + 1, @, TRUE),
                   !.last_execution = now]
    ELSE IF res = "false"
    THEN [a EXCEPT !.success_rate = UpdateSuccessRate(a.executed_tasks, @, FALSE),
                   !.last_execution = now]
    ELSE a

\* The agent after AIAgent.execute_task got res from the Executor
AgentAfter(a, res) ==
    IF res = "true"
    THEN [a EXCEPT !.executed_tasks = @ + 1,
                   !.success_rate = UpdateSuccessRate(a.executed_tasks + 1, @, TRUE),
                   !.last_execution = now]
    ELSE IF res = "false"
    THEN [a EXCEPT !.success_rate = UpdateSuccessRate(a.executed_tasks, @, FALSE),
                   !.last_execution = now]
    ELSE [a EXCEPT !.success_rate = UpdateSuccessRate(a.executed_tasks, @, FALSE)]

\* The task status AIAgent.execute_task writes
StatusAfter(res) == IF res = "true" THEN "completed" ELSE "failed"

----------------------------------------------------------------------------
(* Agent selection *)

\* Variant: the success_rate test is left out
EligibleNoThreshold(a, t) ==
    /\ a.is_active
    /\ t.task_type \in a.capabilities

\* The test of the loop in _select_optimal_agent
Eligible(a, t) ==
    /\ a.is_active
    /\ t.task_type \in a.capabilities
    /\ FracGeqInt(a.success_rate, a.success_threshold)

\* eligible_agents, as references in registry iteration order
EligibleAgents(t) ==
    LET Test(e) == Eligible(agentObjs[e.ref], t)
        sel == SelectSeq(agents, Test)
    IN  [i \in 1..Len(sel) |-> sel[i].ref]

\* Python's tuple comparison of the key (priority, success_rate)
KeyLess(a, b) ==
    \/ a.priority < b.priority
    \/ a.priority = b.priority /\ FracLess(a.success_rate, b.success_rate)

\* Variant: key=lambda a: a.config.priority, success_rate is not compared
RECURSIVE MaxFromPriorityOnly(_, _, _)
MaxFromPriorityOnly(seq, i, best) ==
    IF i > Len(seq) THEN best
    ELSE MaxFromPriorityOnly(seq, i + 1,
             IF agentObjs[best].priority < agentObjs[seq[i]].priority
             THEN seq[i] ELSE best)

\* max(seq, key=...): the first element whose key no other exceeds
RECURSIVE MaxFrom(_, _, _)
MaxFrom(seq, i, best) ==
    IF i > Len(seq) THEN best
    ELSE MaxFrom(seq, i + 1,
                 IF KeyLess(agentObjs[best], agentObjs[seq[i]]) THEN seq[i] ELSE best)

\* Variant: an agent that has a retry sequence in progress is not selected
SelectOptimalAgentIdle(t) ==
    LET el == EligibleAgents(t)
        best == IF el = <<>> THEN NoRef ELSE MaxFrom(el, 2, el[1])
    IN  IF \E p \in 1..Len(runs) :
              runs[p].agent = best /\ runs[p].pc \in {"ready", "calling", "sleeping"}
        THEN NoRef
        ELSE best

\* _select_optimal_agent: a reference, or NoRef for None
SelectOptimalAgent(t) ==
    LET el == EligibleAgents(t)
    IN  IF el = <<>> THEN NoRef ELSE MaxFrom(el, 2, el[1])

----------------------------------------------------------------------------
(* Initial state: AIOrchestrator.__init__ *)

NoSelection == [agents |-> <<>>, agentObjs |-> <<>>, times |-> 0]

\* The phone numbers of the model
Phones == {"p1", "p2"}

\* SMSOnboardingSystem.__init__: verification_codes = {}, nothing sent
EmptyDict == [q \in {} |-> 0]

NoCall == [op |-> "none", phone |-> "none", code |-> "none", ok |-> FALSE,
           msg |-> "none", left |-> 0]

NoSmsHistory ==
    [last |-> NoCall,
     latest |-> [q \in Phones |-> "none"],
     compared |-> [q \in Phones |-> 0]]

InitSms ==
    /\ verification_codes = EmptyDict
    /\ sending = <<>>
    /\ smsHistory = NoSmsHistory

NoRun == [pc |-> "none", attempt |-> 0, agent |-> NoRef, max_retries |-> 0, wake |-> 0]

\* An Executor call is under way.  execute_task and all it calls have no
\* await that suspends (self.web3 is the synchronous Web3 over HTTPProvider,
\* the coroutines awaited return at once), so the call holds the event loop
\* from its start to its return: no other coroutine runs, only time passes
InCall == \E o \in 1..Len(runs) : runs[o].pc = "calling"

Init ==
    /\ now = 0
    /\ agentObjs = <<>>
    /\ agents = <<>>
    /\ taskObjs = <<>>
    /\ tasks = <<>>
    /\ runs = <<>>
    /\ is_running = FALSE
    /\ loop = [pc |-> "idle", wake |-> 0, caught |-> 0]
    /\ outcomes = <<>>
    /\ recorded = <<>>
    /\ selection = <<>>
    /\ InitSms

----------------------------------------------------------------------------
(* Registration and submission *)

\* register_agent
RegisterAgentTo(cfg) ==
    /\ agentObjs' = Append(agentObjs, NewAgent(cfg))
    /\ agents' = DictSet(agents, cfg.agent_id, Len(agentObjs) + 1)
    /\ recorded' = Append(recorded, [ok |-> 0, all |-> 0])

RegisterAgentWithin(n, cfgs) ==
    /\ ~InCall
    /\ Len(agentObjs) < n
    /\ \E cfg \in cfgs : RegisterAgentTo(cfg)
    /\ UNCHANGED <<now, taskObjs, tasks, runs, is_running, loop, outcomes, selection>>
    /\ UNCHANGED smsVars

RegisterAgent == RegisterAgentWithin(MaxAgentObjs, Configs)

\* A Task as callers build it (main): pending, no agent
NewTask(in) ==
    [task_id |-> in.task_id, task_type |-> in.task_type,
     execution_time |-> in.execution_time, tz_aware |-> in.tz_aware,
     assigned_agent |-> None, status |-> "pending", retry_count |-> 0]

\* schedule_task
ScheduleTaskTo(in) ==
    /\ taskObjs' = Append(taskObjs, NewTask(in))
    /\ tasks' = DictSet(tasks, in.task_id, Len(taskObjs) + 1)
    /\ runs' = Append(runs, NoRun)
    /\ outcomes' = Append(outcomes, [calls |-> 0, first_ok |-> 0, after_stop |-> 0, backoff |-> 0])
    /\ selection' = Append(selection, NoSelection)

ScheduleTaskWithin(n, inputs) ==
    /\ ~InCall
    /\ Len(taskObjs) < n
    /\ \E in \in inputs : ScheduleTaskTo(in)
    /\ UNCHANGED <<now, agentObjs, agents, is_running, loop, recorded>>
    /\ UNCHANGED smsVars

ScheduleTask == ScheduleTaskWithin(MaxTaskObjs, TaskInputs)

----------------------------------------------------------------------------
(* The orchestration loop *)

\* The condition of the scan in _process_pending_tasks
\* Variant: the scan does not compare execution_time with the clock
DueIgnoringTime(t) == t.status = "pending"

\* Variant: the scan does not test the status
DueIgnoringStatus(t) == t.execution_time <= now

Due(t) == t.status = "pending" /\ t.execution_time <= now

\* Evaluating that condition on entry i of the registry raises: the status
\* is tested first, the comparison of an aware execution_time with the naive
\* current_time raises TypeError
RaisesAt(i) ==
    LET t == taskObjs[tasks[i].ref] IN t.status = "pending" /\ t.tz_aware

\* The scan raises
ScanFault == \E i \in 1..Len(tasks) : RaisesAt(i)

\* Variant: the for loop ends after the first entry of the registry
ScannedFirstOnly ==
    { tasks[i].ref : i \in { j \in 1..Len(tasks) : j = 1 /\ ~RaisesAt(j) } }

\* The Task objects the for loop handles before it ends or raises
Scanned ==
    { tasks[i].ref : i \in { j \in 1..Len(tasks) : \A k \in 1..j : ~RaisesAt(k) } }

\* Variant: the coroutine runs up to its first suspension when it is
\* created, inside the scan
StartedRunEntered(a) ==
    [pc |-> "calling", attempt |-> 0, agent |-> a,
     max_retries |-> agentObjs[a].retry_attempts, wake |-> 0]

\* The coroutine asyncio.create_task makes: it is scheduled on the event
\* loop and has not run yet
StartedRun(a) ==
    [pc |-> "ready", attempt |-> 0, agent |-> a,
     max_retries |-> agentObjs[a].retry_attempts, wake |-> 0]

\* Variant: a due task without an eligible agent is given up
ScannedTaskFailing(t) ==
    LET best == SelectOptimalAgent(t)
    IN  IF Due(t) /\ best # NoRef
        THEN [t EXCEPT !.assigned_agent = agentObjs[best].agent_id,
                       !.status = "executing"]
        ELSE IF Due(t) THEN [t EXCEPT !.status = "failed"]
        ELSE t

\* Variant: the agent is not written to the task
ScannedTaskUnassigned(t) ==
    LET best == SelectOptimalAgent(t)
    IN  IF Due(t) /\ best # NoRef
        THEN [t EXCEPT !.status = "executing"]
        ELSE t

\* What the scan does to one Task object of the registry
ScannedTask(t) ==
    LET best == SelectOptimalAgent(t)
    IN  IF Due(t) /\ best # NoRef
        THEN [t EXCEPT !.assigned_agent = agentObjs[best].agent_id,
                       !.status = "executing"]
        ELSE t

ScannedRun(o) ==
    LET best == SelectOptimalAgent(taskObjs[o])
    IN  IF Due(taskObjs[o]) /\ best # NoRef THEN StartedRun(best) ELSE runs[o]

\* _process_pending_tasks: no await suspends inside it, and selection reads
\* only agents, which the scan does not change.  When the scan raises, the
\* tasks created before stay created
ProcessPendingTasks ==
    /\ taskObjs' = [o \in 1..Len(taskObjs) |->
                      IF o \in Scanned THEN ScannedTask(taskObjs[o]) ELSE taskObjs[o]]
    /\ runs' = [o \in 1..Len(runs) |->
                      IF o \in Scanned THEN ScannedRun(o) ELSE runs[o]]
    /\ selection' = [o \in 1..Len(selection) |->
                      IF o \in Scanned /\ Due(taskObjs[o])
                         /\ SelectOptimalAgent(taskObjs[o]) # NoRef
                      THEN [agents |-> agents, agentObjs |-> agentObjs,
                            times |-> selection[o].times + 1]
                      ELSE selection[o]]

\* The test of _monitor_agents under which it logs "success rate low" for
\* an agent
SuccessRateLow(a) ==
    FracLess(a.success_rate, <<80, 1>>) /\ a.executed_tasks > 10

\* Variant: the monitor deactivates the agents whose success rate is low
MonitorAgentsDeactivating ==
    /\ agentObjs' = [a \in 1..Len(agentObjs) |->
                       IF FracLess(agentObjs[a].success_rate, <<80, 1>>)
                       THEN [agentObjs[a] EXCEPT !.is_active = FALSE]
                       ELSE agentObjs[a]]
    /\ agents' = agents

\* _monitor_agents: it reads last_execution, success_rate and executed_tasks
\* of every agent and only logs
MonitorAgents ==
    /\ agentObjs' = agentObjs
    /\ agents' = agents

\* Variant: no except block, a fault of the scan ends the loop
CycleUncaught ==
    /\ ProcessPendingTasks
    /\ IF ScanFault THEN UNCHANGED <<agentObjs, agents>> ELSE MonitorAgents
    /\ loop' = IF ScanFault
               THEN [loop EXCEPT !.pc = "exited", !.wake = 0]
               ELSE [loop EXCEPT !.pc = "sleeping", !.wake = now + 10]

\* One pass of the while body up to its sleep: asyncio.sleep(10) at the end
\* of the try block, asyncio.sleep(30) in the except block, which the
\* monitor is skipped on the way to.  _process_workflows does nothing
Cycle ==
    /\ ProcessPendingTasks
    /\ IF ScanFault THEN UNCHANGED <<agentObjs, agents>> ELSE MonitorAgents
    /\ loop' = [pc |-> "sleeping",
                wake |-> now + (IF ScanFault THEN 30 ELSE 10),
                caught |-> loop.caught + (IF ScanFault THEN 1 ELSE 0)]

\* run_orchestration_loop is called: is_running = True and the first cycle
StartLoop ==
    /\ ~InCall
    /\ loop.pc = "idle"
    /\ is_running' = TRUE
    /\ Cycle
    /\ UNCHANGED <<now, tasks, outcomes, recorded>>
    /\ UNCHANGED smsVars

\* Variant: while True
LoopWakeIgnoringStop ==
    /\ ~InCall
    /\ loop.pc = "sleeping"
    /\ now >= loop.wake
    /\ Cycle
    /\ UNCHANGED <<now, tasks, is_running, outcomes, recorded>>
    /\ UNCHANGED smsVars

\* The loop returns from its sleep and tests is_running
LoopWake ==
    /\ ~InCall
    /\ loop.pc = "sleeping"
    /\ now >= loop.wake
    /\ IF is_running
       THEN Cycle
       ELSE /\ loop' = [loop EXCEPT !.pc = "exited", !.wake = 0]
            /\ UNCHANGED <<taskObjs, runs, selection, agentObjs, agents>>
    /\ UNCHANGED <<now, tasks, is_running, outcomes, recorded>>
    /\ UNCHANGED smsVars

\* Variant: stop ends the retry sequences that are under way
StopCancelling ==
    /\ ~InCall
    /\ is_running' = FALSE
    /\ runs' = [o \in 1..Len(runs) |->
                  IF runs[o].pc \in {"ready", "sleeping"}
                  THEN [runs[o] EXCEPT !.pc = "done", !.wake = 0]
                  ELSE runs[o]]
    /\ UNCHANGED <<now, agentObjs, agents, taskObjs, tasks, loop, outcomes,
                   recorded, selection>>
    /\ UNCHANGED smsVars

\* stop
Stop ==
    /\ ~InCall
    /\ is_running' = FALSE
    /\ UNCHANGED <<now, agentObjs, agents, taskObjs, tasks, runs, loop, outcomes,
                   recorded, selection>>
    /\ UNCHANGED smsVars

----------------------------------------------------------------------------
(* The retry sequence: _execute_task_safely around AIAgent.execute_task *)

\* Variant: range(max_retries) instead of range(max_retries + 1)
RunAfterShort(r, success) ==
    IF success THEN [r EXCEPT !.pc = "done"]
    ELSE IF r.attempt + 1 < r.max_retries
    THEN [r EXCEPT !.pc = "sleeping", !.wake = now + 2 ^ r.attempt]
    ELSE [r EXCEPT !.pc = "done"]

\* Variant: no break after a successful attempt
RunAfterNoBreak(r, success) ==
    IF r.attempt < r.max_retries
    THEN [r EXCEPT !.pc = "sleeping", !.wake = now + 2 ^ r.attempt]
    ELSE [r EXCEPT !.pc = "done"]

\* Variant: the sleep grows by one time unit per attempt
RunAfterLinear(r, success) ==
    IF success THEN [r EXCEPT !.pc = "done"]
    ELSE IF r.attempt < r.max_retries
    THEN [r EXCEPT !.pc = "sleeping", !.wake = now + r.attempt + 1]
    ELSE [r EXCEPT !.pc = "done"]

\* Variant: the sleeps are 2, 4, 8, ...
RunAfterDoubled(r, success) ==
    IF success THEN [r EXCEPT !.pc = "done"]
    ELSE IF r.attempt < r.max_retries
    THEN [r EXCEPT !.pc = "sleeping", !.wake = now + 2 ^ (r.attempt + 1)]
    ELSE [r EXCEPT !.pc = "done"]

\* The loop of _execute_task_safely after an attempt returned success
RunAfter(r, success) ==
    IF success THEN [r EXCEPT !.pc = "done"]
    ELSE IF r.attempt < r.max_retries
    THEN [r EXCEPT !.pc = "sleeping", !.wake = now + 2 ^ r.attempt]
    ELSE [r EXCEPT !.pc = "done"]

\* History of a Task object's Executor calls: how many have returned,
\* which of them was the first to succeed (0: none yet), how many of them
\* are counted as returned after stop() cleared is_running, and the sum of
\* the sleeps asked for after them
CallLogged(h, success, stopped, sleep) ==
    [calls |-> h.calls + 1,
     first_ok |-> IF success /\ h.first_ok = 0 THEN h.calls + 1 ELSE h.first_ok,
     after_stop |-> h.after_stop + (IF stopped THEN 1 ELSE 0),
     backoff |-> h.backoff + sleep]

\* History of the results recorded on an AIAgent object
ResultLogged(h, success) ==
    [ok |-> h.ok + (IF success THEN 1 ELSE 0), all |-> h.all + 1]

\* Variant: the outcome is applied to the statistics the agent had when the
\* task was dispatched
ExecReturnFromDispatch(o, res) ==
    LET a == runs[o].agent
    IN  /\ agentObjs' = [agentObjs EXCEPT
                            ![a] = AgentAfter(selection[o].agentObjs[a], res)]
        /\ taskObjs' = [taskObjs EXCEPT ![o].status = StatusAfter(res)]
        /\ runs' = [runs EXCEPT ![o] = RunAfter(@, res = "true")]
        /\ recorded' = [recorded EXCEPT ![a] = ResultLogged(@, res = "true")]

\* The Executor call of Task object o ends with res: execute_task records
\* it on the agent and the task, then the retry loop breaks, sleeps or ends
ExecReturn(o, res) ==
    LET a == runs[o].agent
    IN  /\ agentObjs' = [agentObjs EXCEPT ![a] = AgentAfter(@, res)]
        /\ taskObjs' = [taskObjs EXCEPT ![o].status = StatusAfter(res)]
        /\ runs' = [runs EXCEPT ![o] = RunAfter(@, res = "true")]
        /\ recorded' = [recorded EXCEPT ![a] = ResultLogged(@, res = "true")]

\* The event loop runs a coroutine made by asyncio.create_task: it goes
\* straight into the Executor call of attempt 0
TaskStarts ==
    /\ ~InCall
    /\ \E o \in 1..Len(runs) :
          /\ runs[o].pc = "ready"
          /\ runs' = [runs EXCEPT ![o].pc = "calling"]
    /\ UNCHANGED <<now, agentObjs, agents, taskObjs, tasks, is_running, loop,
                   outcomes, recorded, selection>>
    /\ UNCHANGED smsVars

\* An Executor call ends.  The history counts the calls that return after
\* stop() only where stops is set
ExecutorReturnsLogging(stops) ==
    /\ \E o \in 1..Len(runs), res \in ExecResults :
          /\ runs[o].pc = "calling"
          /\ ExecReturn(o, res)
          /\ outcomes' = [outcomes EXCEPT
                             ![o] = CallLogged(@, res = "true", stops /\ ~is_running,
                                               IF runs'[o].pc = "sleeping"
                                               THEN runs'[o].wake - now ELSE 0)]
    /\ UNCHANGED <<now, agents, tasks, is_running, loop, selection>>
    /\ UNCHANGED smsVars

ExecutorReturns == ExecutorReturnsLogging(FALSE)

\* Variant: the next attempt is made on the agent selection finds then
BackoffOverReselecting ==
    /\ ~InCall
    /\ \E o \in 1..Len(runs) :
          LET best == SelectOptimalAgent(taskObjs[o])
          IN  /\ runs[o].pc = "sleeping"
              /\ now >= runs[o].wake
              /\ runs' = [runs EXCEPT ![o].pc = "calling", ![o].attempt = @ + 1,
                                      ![o].wake = 0,
                                      ![o].agent = IF best # NoRef THEN best ELSE @]
    /\ UNCHANGED <<now, agentObjs, agents, taskObjs, tasks, is_running, loop,
                   outcomes, recorded, selection>>
    /\ UNCHANGED smsVars

\* Variant: a sequence goes on to its next attempt only while is_running
BackoffOverWhileRunning ==
    /\ ~InCall
    /\ is_running
    /\ \E o \in 1..Len(runs) :
          /\ runs[o].pc = "sleeping"
          /\ now >= runs[o].wake
          /\ runs' = [runs EXCEPT ![o].pc = "calling", ![o].attempt = @ + 1,
                                          ![o].wake = 0]
    /\ UNCHANGED <<now, agentObjs, agents, taskObjs, tasks, is_running, loop,
                   outcomes, recorded, selection>>
    /\ UNCHANGED smsVars

\* asyncio.sleep(2 ** attempt) is over: the next attempt enters the Executor
BackoffOver ==
    /\ ~InCall
    /\ \E o \in 1..Len(runs) :
          /\ runs[o].pc = "sleeping"
          /\ now >= runs[o].wake
          /\ runs' = [runs EXCEPT ![o].pc = "calling", ![o].attempt = @ + 1,
                                          ![o].wake = 0]
    /\ UNCHANGED <<now, agentObjs, agents, taskObjs, tasks, is_running, loop,
                   outcomes, recorded, selection>>
    /\ UNCHANGED smsVars

----------------------------------------------------------------------------
(* Time *)

\* The instants something waits for: sleeps and execution times
Deadlines ==
    { runs[o].wake : o \in { p \in 1..Len(runs) : runs[p].pc = "sleeping" } }
    \cup (IF loop.pc = "sleeping" THEN {loop.wake} ELSE {})
    \cup { taskObjs[o].execution_time : o \in 1..Len(taskObjs) }

\* The clock moves to the next such instant
AdvanceClockWithin(horizon) ==
    /\ \E d \in Deadlines :
          /\ d > now
          /\ d <= horizon
          /\ \A e \in Deadlines : e > now => d <= e
          /\ now' = d
    /\ UNCHANGED <<agentObjs, agents, taskObjs, tasks, runs, is_running, loop,
                   outcomes, recorded, selection>>
    /\ UNCHANGED smsVars

AdvanceClock == AdvanceClockWithin(MaxTime)

----------------------------------------------------------------------------

Next ==
    \/ RegisterAgent
    \/ ScheduleTask
    \/ StartLoop
    \/ LoopWake
    \/ Stop
    \/ TaskStarts
    \/ ExecutorReturns
    \/ BackoffOver
    \/ AdvanceClock

Spec == Init /\ [][Next]_vars

\* The same program run longer with fewer objects, with an agent that
\* retries three times, and with tasks whose execution_time makes the scan
\* raise
RegisterAgentLoop == RegisterAgentWithin(LoopAgentObjs, Configs \cup PatientConfigs)

ScheduleTaskLoop == ScheduleTaskWithin(LoopTaskObjs, TaskInputs \cup AwareTaskInputs)

AdvanceClockLoop == AdvanceClockWithin(LoopHorizon)

ExecutorReturnsLoop == ExecutorReturnsLogging(TRUE)

NextLoop ==
    \/ RegisterAgentLoop
    \/ ScheduleTaskLoop
    \/ StartLoop
    \/ LoopWake
    \/ Stop
    \/ TaskStarts
    \/ ExecutorReturnsLoop
    \/ BackoffOver
    \/ AdvanceClockLoop

SpecLoop == Init /\ [][NextLoop]_vars

\* The event loop runs a coroutine that is ready and resumes one whose
\* sleep is over, time passes, and an Executor call ends: the requests of
\* HTTPProvider and wait_for_transaction_receipt have timeouts
SpecLoopFair ==
    /\ SpecLoop
    /\ WF_vars(LoopWake)
    /\ WF_vars(AdvanceClockLoop)
    /\ WF_vars(TaskStarts)
    /\ WF_vars(ExecutorReturnsLoop)
    /\ WF_vars(BackoffOver)

\* The program of Spec when a submitted Task may carry an aware
\* execution_time
ScheduleTaskAware ==
    ScheduleTaskWithin(MaxTaskObjs, TaskInputs \cup AwareTaskInputs)

NextAware ==
    \/ RegisterAgent
    \/ ScheduleTaskAware
    \/ StartLoop
    \/ LoopWake
    \/ Stop
    \/ TaskStarts
    \/ ExecutorReturns
    \/ BackoffOver
    \/ AdvanceClock

SpecAware == Init /\ [][NextAware]_vars

\* One agent and the results of the Executor calls made on it, in any
\* order: what execute_task records on the agent, without the scheduling
InitOutcomes ==
    /\ now = 0
    /\ \E cfg \in Configs :
          /\ agentObjs = <<NewAgent(cfg)>>
          /\ agents = <<[key |-> cfg.agent_id, ref |-> 1]>>
    /\ recorded = <<[ok |-> 0, all |-> 0]>>
    /\ taskObjs = <<>>
    /\ tasks = <<>>
    /\ runs = <<>>
    /\ is_running = FALSE
    /\ loop = [pc |-> "idle", wake |-> 0, caught |-> 0]
    /\ outcomes = <<>>
    /\ selection = <<>>
    /\ InitSms

RecordOutcome ==
    /\ recorded[1].all < MaxOutcomes
    /\ \E res \in ExecResults :
          /\ agentObjs' = [agentObjs EXCEPT ![1] = AgentAfter(@, res)]
          /\ recorded' = [recorded EXCEPT ![1] = ResultLogged(@, res = "true")]
    /\ UNCHANGED <<now, agents, taskObjs, tasks, runs, is_running, loop,
                   outcomes, selection>>
    /\ UNCHANGED smsVars

SpecOutcomes == InitOutcomes /\ [][RecordOutcome]_vars

----------------------------------------------------------------------------
(* SMSOnboardingSystem: verification codes.  Time is counted in minutes *)

\* timedelta(minutes=10) of send_verification_sms
CodeLifetime == 10

\* The 3 of "stored_data['attempts'] >= 3"
AttemptLimit == 3

\* What _generate_verification_code can return: six digits drawn at random,
\* so a code issued later may equal the one before it or differ from it
Codes == {"111111", "222222"}

\* The strings of six digits a caller may submit
SixDigit == Codes \cup {"333333"}

\* Message bodies as they arrive
Bodies == {"START", " start", "STOP"} \cup SixDigit

\* message_body.strip().upper()
Normalised(b) == IF b = " start" THEN "START" ELSE b

\* d[p] = e and del d[p] on a dict
Put(d, p, e) == [q \in DOMAIN d \cup {p} |-> IF q = p THEN e ELSE d[q]]

Del(d, p) == [q \in DOMAIN d \ {p} |-> d[q]]

\* Variant: attempts of the entry that is replaced are carried over
StoredKeepingAttempts(d, t, p, c) ==
    Put(d, p, [code |-> c, expires |-> t + CodeLifetime,
               attempts |-> IF p \in DOMAIN d THEN d[p].attempts ELSE 0])

\* The assignment to verification_codes[phone_number] at time t
Stored(d, t, p, c) ==
    Put(d, p, [code |-> c, expires |-> t + CodeLifetime, attempts |-> 0])

Answer(ok, msg, left, d) == [ok |-> ok, msg |-> msg, left |-> left, codes |-> d]

\* Variant: a code that verified stays stored
VerifiedKeepingEntry(d, t, p, c) ==
    IF p \notin DOMAIN d THEN Answer(FALSE, "not_found", 0, d)
    ELSE IF t > d[p].expires THEN Answer(FALSE, "expired", 0, Del(d, p))
    ELSE IF d[p].attempts >= AttemptLimit
         THEN Answer(FALSE, "max_attempts", 0, Del(d, p))
    ELSE IF d[p].code = c THEN Answer(TRUE, "success", 0, d)
    ELSE Answer(FALSE, "invalid", AttemptLimit - (d[p].attempts + 1),
                [d EXCEPT ![p].attempts = @ + 1])

\* Variant: the attempts test lets one more submission through
VerifiedOneMore(d, t, p, c) ==
    IF p \notin DOMAIN d THEN Answer(FALSE, "not_found", 0, d)
    ELSE IF t > d[p].expires THEN Answer(FALSE, "expired", 0, Del(d, p))
    ELSE IF d[p].attempts > AttemptLimit
         THEN Answer(FALSE, "max_attempts", 0, Del(d, p))
    ELSE IF d[p].code = c THEN Answer(TRUE, "success", 0, Del(d, p))
    ELSE Answer(FALSE, "invalid", AttemptLimit - (d[p].attempts + 1),
                [d EXCEPT ![p].attempts = @ + 1])

\* Variant: the code is compared before the expiry is tested
VerifiedExpiryLast(d, t, p, c) ==
    IF p \notin DOMAIN d THEN Answer(FALSE, "not_found", 0, d)
    ELSE IF d[p].attempts >= AttemptLimit
         THEN Answer(FALSE, "max_attempts", 0, Del(d, p))
    ELSE IF d[p].code = c THEN Answer(TRUE, "success", 0, Del(d, p))
    ELSE IF t > d[p].expires THEN Answer(FALSE, "expired", 0, Del(d, p))
    ELSE Answer(FALSE, "invalid", AttemptLimit - (d[p].attempts + 1),
                [d EXCEPT ![p].attempts = @ + 1])

\* verify_sms_code at time t: what it returns and the dict it leaves
Verified(d, t, p, c) ==
    IF p \notin DOMAIN d THEN Answer(FALSE, "not_found", 0, d)
    ELSE IF t > d[p].expires THEN Answer(FALSE, "expired", 0, Del(d, p))
    ELSE IF d[p].attempts >= AttemptLimit
         THEN Answer(FALSE, "max_attempts", 0, Del(d, p))
    ELSE IF d[p].code = c THEN Answer(TRUE, "success", 0, Del(d, p))
    ELSE Answer(FALSE, "invalid", AttemptLimit - (d[p].attempts + 1),
                [d EXCEPT ![p].attempts = @ + 1])

\* History of a code issued, with the attempts of the entry of dict d it
\* replaced, and of a verify_sms_code call
AfterIssue(h, d, p, c) ==
    [h EXCEPT !.last = [op |-> "send", phone |-> p, code |-> c, ok |-> TRUE,
                        msg |-> IF p \in DOMAIN d THEN "replaced" ELSE "new",
                        left |-> IF p \in DOMAIN d THEN d[p].attempts ELSE 0],
              !.latest[p] = c,
              !.compared[p] = 0]

AfterVerify(h, p, c, r) ==
    [h EXCEPT !.last = [op |-> "verify", phone |-> p, code |-> c, ok |-> r.ok,
                        msg |-> r.msg, left |-> r.left],
              !.compared[p] = IF r.msg \in {"success", "invalid"} THEN @ + 1 ELSE @]

\* send_verification_sms up to its await of _send_sms: a code is drawn and
\* stored, then the coroutine waits for the provider.  then_resend is set
\* when process_sms_onboarding will send again after this call returns
Issue(p, then_resend, waiting) ==
    /\ Len(waiting) < MaxSending
    /\ \E c \in Codes :
          /\ verification_codes' = Stored(verification_codes, now, p, c)
          /\ smsHistory' = AfterIssue(smsHistory, verification_codes, p, c)
    /\ sending' = Append(waiting, [phone |-> p, resend |-> then_resend])

\* A call of send_verification_sms
SendVerificationSms ==
    /\ \E p \in Phones : Issue(p, FALSE, sending)
    /\ UNCHANGED <<now, orchestratorVars>>

\* The body of verify_sms_code, which has no await
Verify(p, c) ==
    LET r == Verified(verification_codes, now, p, c)
    IN  /\ verification_codes' = r.codes
        /\ smsHistory' = AfterVerify(smsHistory, p, c, r)
        /\ sending' = sending

\* A call of verify_sms_code
VerifySmsCode ==
    /\ \E p \in Phones, c \in SixDigit : Verify(p, c)
    /\ UNCHANGED <<now, orchestratorVars>>

\* handle_incoming_sms: START issues a code, six digits are submitted as a
\* code, anything else is answered without a change
HandleIncomingSms(p, body, then_resend) ==
    LET m == Normalised(body)
    IN  IF m = "START" THEN Issue(p, then_resend, sending)
        ELSE IF m \in SixDigit THEN Verify(p, m)
        ELSE /\ smsHistory' = [smsHistory EXCEPT
                                  !.last = [NoCall EXCEPT !.op = "other", !.phone = p]]
             /\ UNCHANGED <<verification_codes, sending>>

\* process_sms_onboarding: handle_incoming_sms, and after a START with
\* accessibility_friendly a second send_verification_sms.  Without
\* accessibility_friendly it is handle_incoming_sms alone
ProcessSmsOnboarding ==
    /\ \E p \in Phones, body \in Bodies, accessibility_friendly \in BOOLEAN :
          HandleIncomingSms(p, body, accessibility_friendly)
    /\ UNCHANGED <<now, orchestratorVars>>

\* _send_sms returns to a waiting send_verification_sms with the provider's
\* answer; the stored entry does not depend on it.  In process_sms_onboarding
\* the second send_verification_sms follows
SmsSent ==
    /\ \E i \in 1..Len(sending), success \in BOOLEAN :
          LET w == sending[i]
              rest == SubSeq(sending, 1, i - 1) \o SubSeq(sending, i + 1, Len(sending))
          IN  IF w.resend
              THEN Issue(w.phone, FALSE, rest)
              ELSE /\ sending' = rest
                   /\ smsHistory' = [smsHistory EXCEPT
                                        !.last = [NoCall EXCEPT !.op = "sent",
                                                                !.phone = w.phone,
                                                                !.ok = success]]
                   /\ verification_codes' = verification_codes
    /\ UNCHANGED <<now, orchestratorVars>>

\* datetime.now() moves on
MinutesPass ==
    /\ now + SmsTick <= SmsHorizon
    /\ now' = now + SmsTick
    /\ UNCHANGED <<orchestratorVars, smsVars>>

NextSms ==
    \/ SendVerificationSms
    \/ VerifySmsCode
    \/ ProcessSmsOnboarding
    \/ SmsSent
    \/ MinutesPass

SpecSms == Init /\ [][NextSms]_vars

----------------------------------------------------------------------------

TypeOK ==
    /\ now \in 0..LoopHorizon
    /\ is_running \in BOOLEAN
    /\ loop.pc \in {"idle", "sleeping", "exited"}
    /\ \A o \in 1..Len(runs) : runs[o].pc \in {"none", "ready", "calling", "sleeping", "done"}

----------------------------------------------------------------------------
(* Properties *)

AgentRefs == 1..Len(agentObjs)
TaskRefs == 1..Len(taskObjs)

\* C1: after N recorded outcomes an agent's reliability is
\* 100 * (number of successes) / N, whatever their order.
C1_ReliabilityIsMean ==
    \A a \in AgentRefs :
        recorded[a].all > 0 =>
            agentObjs[a].success_rate[1] * recorded[a].all
                = 100 * recorded[a].ok * agentObjs[a].success_rate[2]

\* The agents eligible for Task object o when it was selected, as
\* references in registry iteration order
EligibleThen(o) ==
    LET Test(e) == Eligible(selection[o].agentObjs[e.ref], taskObjs[o])
        sel == SelectSeq(selection[o].agents, Test)
    IN  [i \in 1..Len(sel) |-> sel[i].ref]

\* C2: the agent selection returned has the greatest (priority, reliability)
\* pair among the agents eligible at that moment, and among those with that
\* pair it is the first in registry iteration order.
C2_SelectionPicksMaximum ==
    \A o \in TaskRefs :
        runs[o].pc # "none" =>
            LET el == EligibleThen(o)
                then == selection[o].agentObjs
                b == runs[o].agent
                Above(x, y) ==
                    \/ then[x].priority > then[y].priority
                    \/ /\ then[x].priority = then[y].priority
                       /\ then[x].success_rate[1] * then[y].success_rate[2]
                            > then[y].success_rate[1] * then[x].success_rate[2]
            IN  /\ taskObjs[o].assigned_agent = then[b].agent_id
                /\ \E j \in 1..Len(el) :
                      /\ el[j] = b
                      /\ \A i \in 1..Len(el) : ~Above(el[i], b)
                      /\ \A i \in 1..(j - 1) : Above(b, el[i])

\* C2 happens: a task was given to an agent although an agent of the same
\* priority and a lower reliability was eligible and came first in the
\* registry.
C2_Witness ==
    \E o \in TaskRefs :
        /\ runs[o].pc # "none"
        /\ LET el == EligibleThen(o)
               then == selection[o].agentObjs
           IN  /\ Len(el) = 2
               /\ el[2] = runs[o].agent
               /\ then[el[1]].priority = then[el[2]].priority
               /\ FracLess(then[el[1]].success_rate, then[el[2]].success_rate)

\* C3: a task is only assigned to an agent that, when selected, is in the
\* registry, is active, has the task's type among its capabilities and has a
\* reliability of at least its own threshold.
C3_AssignedAgentIsEligible ==
    \A o \in TaskRefs :
        runs[o].pc # "none" =>
            LET b == selection[o].agentObjs[runs[o].agent]
            IN  /\ runs[o].agent \in Refs(selection[o].agents)
                /\ taskObjs[o].assigned_agent = b.agent_id
                /\ b.is_active
                /\ taskObjs[o].task_type \in b.capabilities
                /\ b.success_rate[1] >= b.success_threshold * b.success_rate[2]

\* C3 happens: a task was given to an agent although a registered, active,
\* capable agent of higher priority was there, below its threshold.
C3_Witness ==
    \E o \in TaskRefs :
        /\ runs[o].pc # "none"
        /\ \E e \in Refs(selection[o].agents) :
              LET then == selection[o].agentObjs
              IN  /\ then[e].priority > then[runs[o].agent].priority
                  /\ then[e].is_active
                  /\ taskObjs[o].task_type \in then[e].capabilities
                  /\ then[e].success_rate[1]
                       < then[e].success_threshold * then[e].success_rate[2]

\* C4: a due pending task with no eligible agent stays pending with no
\* assigned agent in every step, a tick included.
C4_NoEligibleStaysPending ==
    [][\A o \in TaskRefs :
          (Due(taskObjs[o]) /\ EligibleAgents(taskObjs[o]) = <<>>) =>
              /\ taskObjs'[o].status = "pending"
              /\ taskObjs'[o].assigned_agent = None
              /\ runs'[o].pc = "none"]_vars

\* C4 happens: the loop has run a cycle and sleeps, and a due task of the
\* registry that an active agent is capable of is pending without an
\* eligible agent.
C4_Witness ==
    \E o \in Refs(tasks), e \in Refs(agents) :
        /\ loop.pc = "sleeping"
        /\ loop.wake = now + 10
        /\ ~taskObjs[o].tz_aware
        /\ Due(taskObjs[o])
        /\ taskObjs[o].task_type \in agentObjs[e].capabilities
        /\ EligibleAgents(taskObjs[o]) = <<>>
        /\ taskObjs[o].assigned_agent = None

\* C5: a retry sequence whose attempts all fail never makes more than
\* retry_attempts + 1 of them, and ends after exactly that many with the
\* task failed.
C5_AllFailMakesAllAttempts ==
    \A o \in TaskRefs :
        (runs[o].pc # "none" /\ outcomes[o].first_ok = 0) =>
            LET r == agentObjs[runs[o].agent].retry_attempts
            IN  /\ outcomes[o].calls <= r + 1
                /\ runs[o].pc = "done" =>
                      /\ outcomes[o].calls = r + 1
                      /\ taskObjs[o].status = "failed"

\* C5 happens: a sequence of three failed attempts has ended.
C5_Witness ==
    \E o \in TaskRefs :
        /\ runs[o].pc = "done"
        /\ outcomes[o].first_ok = 0
        /\ outcomes[o].calls = 3

\* C6: when attempt number k is the first to succeed, the retry sequence
\* has ended with exactly k attempts made and the task completed.
C6_SuccessEndsSequence ==
    \A o \in TaskRefs :
        outcomes[o].first_ok # 0 =>
            /\ outcomes[o].first_ok <= agentObjs[runs[o].agent].retry_attempts + 1
            /\ outcomes[o].calls = outcomes[o].first_ok
            /\ runs[o].pc = "done"
            /\ taskObjs[o].status = "completed"

\* C6 happens: a sequence succeeded on its third attempt.
C6_Witness ==
    \E o \in TaskRefs :
        /\ outcomes[o].first_ok = 3
        /\ runs[o].pc = "done"

\* C7: a Task object's status changes only from pending to executing and
\* from executing to completed or failed.
C7_StatusEdges ==
    [][\A o \in TaskRefs :
          \/ taskObjs'[o].status = taskObjs[o].status
          \/ taskObjs[o].status = "pending" /\ taskObjs'[o].status = "executing"
          \/ /\ taskObjs[o].status = "executing"
             /\ taskObjs'[o].status \in {"completed", "failed"}]_vars

\* C8: a task's assigned_agent is set exactly when its status is executing,
\* completed or failed.
C8_AssignedIffNotPending ==
    \A o \in TaskRefs :
        (taskObjs[o].assigned_agent # None)
            <=> (taskObjs[o].status \in {"executing", "completed", "failed"})

\* C8 happens: a task has ended with its agent recorded while another task
\* of the registry is pending.
C8_Witness ==
    \E o \in TaskRefs, p \in TaskRefs :
        /\ taskObjs[o].status \in {"completed", "failed"}
        /\ taskObjs[o].assigned_agent # None
        /\ taskObjs[p].status = "pending"

\* C9: registering an identifier the agent registry holds leaves the
\* registry as it is: the identifier keeps its agent.
C9_DuplicateAgentRejected ==
    [][\A k \in Keys(agents) : Lookup(agents', k) = Lookup(agents, k)]_vars

\* C10: submitting an identifier the task registry holds leaves the
\* registry as it is: the identifier keeps its task.
C10_DuplicateTaskRejected ==
    [][\A k \in Keys(tasks) : Lookup(tasks', k) = Lookup(tasks, k)]_vars

\* C11: a pending task whose execution_time is later than the clock stays
\* pending, without an agent and without a retry sequence, in every step;
\* a task is given a retry sequence only in a step that starts with it
\* pending and with execution_time <= now.
C11_NotDueNotPromoted ==
    [][\A o \in TaskRefs :
          /\ (taskObjs[o].status = "pending" /\ taskObjs[o].execution_time > now)
                => /\ taskObjs'[o].status = "pending"
                   /\ taskObjs'[o].assigned_agent = None
                   /\ runs'[o].pc = "none"
          /\ (runs[o].pc = "none" /\ runs'[o].pc # "none")
                => /\ taskObjs[o].status = "pending"
                   /\ taskObjs[o].execution_time <= now]_vars

\* The first task submitted is still pending and not yet due, although the
\* tick that dispatched the task submitted after it read an agent that is
\* eligible for it.
C11_Witness ==
    /\ Len(taskObjs) = 2
    /\ Refs(tasks) = {1, 2}
    /\ taskObjs[1].status = "pending"
    /\ taskObjs[1].execution_time > now
    /\ runs[1].pc = "none"
    /\ runs[2].pc # "none"
    /\ \E e \in Refs(selection[2].agents) :
          Eligible(selection[2].agentObjs[e], taskObjs[1])

\* C12: no task is ever selected a second time, and a task that has left
\* pending keeps its retry sequence in every step: no tick selects it again,
\* gives it another agent, or starts another sequence for it.
C12_DispatchedAtMostOnce ==
    [][\A o \in TaskRefs :
          /\ selection'[o].times <= 1
          /\ taskObjs[o].status # "pending"
                => /\ selection'[o] = selection[o]
                   /\ taskObjs'[o].assigned_agent = taskObjs[o].assigned_agent
                   /\ runs[o].pc # "none"
                   /\ runs'[o].pc # "none"
                   /\ runs'[o].agent = runs[o].agent
                   /\ runs'[o].attempt >= runs[o].attempt]_vars

\* The first task submitted was selected once and is still in the registry;
\* the tick that dispatched the second task ran after an attempt of the
\* first was recorded, with an agent eligible for the first registered.
C12_Witness ==
    /\ Len(taskObjs) = 2
    /\ Refs(tasks) = {1, 2}
    /\ selection[1].times = 1
    /\ runs[1].pc \in {"sleeping", "done"}
    /\ runs[2].pc # "none"
    /\ \E e \in Refs(selection[2].agents) :
          \/ selection[2].agentObjs[e].executed_tasks > 0
          \/ selection[2].agentObjs[e].success_rate # <<100, 1>>
    /\ \E e \in Refs(selection[2].agents) :
          Eligible(selection[2].agentObjs[e], taskObjs[1])

\* C13: a retry sequence starts a sleep only after a failed attempt k with
\* k < max_retries, and asks for 2^k time units; it leaves the sleep only
\* for attempt k + 1 and not before the 2^k units are over.
C13_BackoffIsPowerOfTwo ==
    [][\A o \in TaskRefs :
          /\ (runs[o].pc = "calling" /\ runs'[o].pc = "sleeping")
                => /\ taskObjs'[o].status = "failed"
                   /\ runs[o].attempt < runs[o].max_retries
                   /\ runs'[o].attempt = runs[o].attempt
                   /\ runs'[o].wake = now + 2 ^ runs[o].attempt
          /\ (runs[o].pc = "sleeping" /\ runs'[o] # runs[o])
                => /\ now >= runs[o].wake
                   /\ runs'[o].pc = "calling"
                   /\ runs'[o].attempt = runs[o].attempt + 1]_vars

\* A sequence is in its third sleep, of 4 time units, after attempts 0, 1
\* and 2 failed.
C13_Witness ==
    \E o \in TaskRefs :
        /\ runs[o].pc = "sleeping"
        /\ runs[o].attempt = 2
        /\ outcomes[o].calls = 3
        /\ runs[o].wake = now + 4

\* C14: every Executor call that ends without success, by returning false
\* or by raising, is one more attempt of the sequence, leaves the task
\* failed, is recorded on the agent as one failed outcome (executed_tasks
\* kept, success_rate 0 when executed_tasks is 0 and else scaled by
\* (executed_tasks - 1) / executed_tasks), is followed by the sleep of
\* 2^attempt when attempts remain and by the end of the sequence when none
\* does, and leaves the loop and is_running as they are.
C14_RaiseCountsAsFailure ==
    [][\A o \in TaskRefs :
          (outcomes'[o].calls = outcomes[o].calls + 1 /\ outcomes'[o].first_ok = 0)
            => LET a == runs[o].agent
                   n == agentObjs[a].executed_tasks
                   rate == agentObjs[a].success_rate
               IN  /\ taskObjs'[o].status = "failed"
                   /\ outcomes'[o].calls = runs[o].attempt + 1
                   /\ recorded'[a] = [ok |-> recorded[a].ok, all |-> recorded[a].all + 1]
                   /\ agentObjs'[a].executed_tasks = n
                   /\ agentObjs'[a].success_rate =
                         IF n = 0 THEN <<0, 1>> ELSE Frac(rate[1] * (n - 1), rate[2] * n)
                   /\ runs'[o] = IF runs[o].attempt < runs[o].max_retries
                                 THEN [runs[o] EXCEPT !.pc = "sleeping",
                                                      !.wake = now + 2 ^ runs[o].attempt]
                                 ELSE [runs[o] EXCEPT !.pc = "done"]
                   /\ loop' = loop
                   /\ is_running' = is_running]_vars

\* Every call made for a task due at 10 has raised: its agent, used by no
\* other task, has a last_execution before 10, which a call that returns
\* would have overwritten.  The agent's success_rate is 0, the task is
\* failed, the sequence is in its sleep and the loop in its own.
C14_Witness ==
    \E o \in TaskRefs :
        /\ taskObjs[o].execution_time = 10
        /\ taskObjs[o].status = "failed"
        /\ runs[o].pc = "sleeping"
        /\ outcomes[o].calls >= 1
        /\ recorded[runs[o].agent].all = outcomes[o].calls
        /\ agentObjs[runs[o].agent].last_execution < 10
        /\ agentObjs[runs[o].agent].success_rate = <<0, 1>>
        /\ loop.pc = "sleeping"

\* A pending task of the registry whose execution_time cannot be compared
\* with the clock: the scan of a cycle that starts in this state raises
PoisonedScan ==
    \E o \in Refs(tasks) : taskObjs[o].status = "pending" /\ taskObjs[o].tz_aware

\* C15: a cycle whose scan raises leaves the loop asleep for 30 time units,
\* any other cycle for 10; the loop wakes no earlier than that, then runs
\* another cycle when is_running is set, and it ends only when is_running
\* is cleared.
C15_FaultPausesLoop ==
    [][/\ (loop' # loop /\ loop'.pc = "sleeping")
            => loop'.wake = now + (IF PoisonedScan THEN 30 ELSE 10)
       /\ (loop.pc = "sleeping" /\ loop' # loop)
            => /\ now >= loop.wake
               /\ loop'.pc = IF is_running THEN "sleeping" ELSE "exited"
       /\ loop'.pc = "exited" => loop.pc = "exited" \/ ~is_running
       /\ (loop' # loop /\ is_running') => loop'.pc = "sleeping"]_vars

\* The scan has raised in two cycles: the second ran when the loop woke
\* from the 30 time units it slept after the first, and the loop sleeps
\* again.
C15_Witness ==
    /\ loop.caught = 2
    /\ loop.pc = "sleeping"
    /\ loop.wake = now + 30
    /\ now >= 30
    /\ is_running

\* C16: stop() leaves the loop where it is; a loop asleep with is_running
\* cleared does nothing before its sleep is over and then ends; once
\* is_running is cleared after the loop started, is_running stays cleared
\* and no pending task gets another status, an agent or a retry sequence;
\* and a loop asleep with is_running cleared does end, when its sleep is
\* over within the horizon.
C16_StopEndsPromotion ==
    /\ (loop.pc = "sleeping" /\ ~is_running /\ loop.wake <= LoopHorizon)
          ~> (loop.pc = "exited")
    /\ [][/\ (is_running /\ ~is_running') => loop' = loop
          /\ (loop.pc = "sleeping" /\ ~is_running /\ loop' # loop)
               => now >= loop.wake /\ loop'.pc = "exited"
          /\ loop.pc = "exited" => loop' = loop
          /\ (loop.pc # "idle" /\ ~is_running)
               => /\ ~is_running'
                  /\ \A o \in TaskRefs :
                        taskObjs[o].status = "pending"
                          => /\ taskObjs'[o] = taskObjs[o]
                             /\ runs'[o].pc = "none"]_vars

\* The loop has ended after stop(), and the registry holds a pending task
\* that is due and has an eligible agent.
C16_Witness ==
    /\ loop.pc = "exited"
    /\ ~is_running
    /\ \E o \in Refs(tasks) :
          /\ taskObjs[o].status = "pending"
          /\ taskObjs[o].execution_time <= now
          /\ runs[o].pc = "none"
          /\ \E a \in Refs(agents) : Eligible(agentObjs[a], taskObjs[o])

\* C17: the step that clears is_running leaves every retry sequence, task
\* and agent as it is; and with is_running cleared every sequence goes on
\* as before: it starts its first call, a call that ends is followed by
\* the end of the sequence, on success or after attempt max_retries, or by
\* the sleep of 2^attempt, and a sleep by the next attempt.
C17_StopLeavesSequences ==
    [][/\ (is_running /\ ~is_running')
            => runs' = runs /\ taskObjs' = taskObjs /\ agentObjs' = agentObjs
       /\ \A o \in TaskRefs :
            (~is_running /\ runs'[o] # runs[o] /\ runs[o].pc # "none")
              => \/ /\ runs[o].pc = "ready"
                    /\ runs'[o] = [runs[o] EXCEPT !.pc = "calling"]
                 \/ /\ runs[o].pc = "calling"
                    /\ taskObjs'[o].status = "completed"
                    /\ runs'[o] = [runs[o] EXCEPT !.pc = "done"]
                 \/ /\ runs[o].pc = "calling"
                    /\ taskObjs'[o].status = "failed"
                    /\ runs[o].attempt = runs[o].max_retries
                    /\ runs'[o] = [runs[o] EXCEPT !.pc = "done"]
                 \/ /\ runs[o].pc = "calling"
                    /\ taskObjs'[o].status = "failed"
                    /\ runs[o].attempt < runs[o].max_retries
                    /\ runs'[o] = [runs[o] EXCEPT !.pc = "sleeping",
                                                  !.wake = now + 2 ^ runs[o].attempt]
                 \/ /\ runs[o].pc = "sleeping"
                    /\ now >= runs[o].wake
                    /\ runs'[o] = [runs[o] EXCEPT !.pc = "calling", !.wake = 0,
                                                  !.attempt = runs[o].attempt + 1]]_vars

\* A sequence of four attempts has ended failed, and at least three of its
\* calls returned after stop() had cleared is_running.
C17_Witness ==
    \E o \in TaskRefs :
        /\ ~is_running
        /\ runs[o].pc = "done"
        /\ runs[o].max_retries = 3
        /\ outcomes[o].calls = 4
        /\ outcomes[o].after_stop >= 3
        /\ taskObjs[o].status = "failed"

\* C18: while an Executor call is under way or a retry sequence sleeps,
\* the loop is not held up: whenever its sleep is over it can run its next
\* cycle.
C18_TickNotHeldUp ==
    (loop.pc = "sleeping" /\ now >= loop.wake) => ENABLED LoopWake

\* C19: a cycle of the loop, monitor pass included, leaves every agent and
\* both registries as they are, and changes a task only by what the scan
\* does, the promotion of a pending task.
C19_MonitorChangesNothing ==
    [][(loop' # loop /\ loop'.pc = "sleeping")
          => /\ agentObjs' = agentObjs
             /\ agents' = agents
             /\ tasks' = tasks
             /\ \A o \in TaskRefs :
                   \/ taskObjs'[o] = taskObjs[o]
                   \/ /\ taskObjs[o].status = "pending"
                      /\ taskObjs'[o] =
                            [taskObjs[o] EXCEPT !.status = "executing",
                                                !.assigned_agent = taskObjs'[o].assigned_agent]]_vars

\* The cycle that dispatched the second task ran its monitor over an agent
\* whose success_rate was below 80, and that agent is as it was then.
C19_Witness ==
    /\ Len(taskObjs) = 2
    /\ runs[2].pc # "none"
    /\ loop.pc = "sleeping"
    /\ \E e \in Refs(selection[2].agents) \cap Refs(agents) :
          /\ FracLess(selection[2].agentObjs[e].success_rate, <<80, 1>>)
          /\ agentObjs[e] = selection[2].agentObjs[e]
          /\ agentObjs[e].is_active

\* C20: every identifier of the agent registry stays in it, and the
\* executed_tasks, success_rate and last_execution of its agent change only
\* in a step in which an Executor call of a task assigned to that agent
\* ends.
C20_AgentStatisticsFrame ==
    [][\A k \in Keys(agents) :
          /\ k \in Keys(agents')
          /\ LET a == agentObjs[Lookup(agents, k)]
                 b == agentObjs'[Lookup(agents', k)]
             IN  <<b.executed_tasks, b.success_rate, b.last_execution>>
                    # <<a.executed_tasks, a.success_rate, a.last_execution>>
                   => \E o \in TaskRefs :
                         /\ runs[o].pc = "calling"
                         /\ runs[o].agent = Lookup(agents, k)
                         /\ outcomes'[o].calls = outcomes[o].calls + 1]_vars

\* C21: the success_rate of every agent is at least 0 and at most 100.
C21_ReliabilityInRange ==
    \A a \in AgentRefs :
        /\ agentObjs[a].success_rate[2] > 0
        /\ agentObjs[a].success_rate[1] >= 0
        /\ agentObjs[a].success_rate[1] <= 100 * agentObjs[a].success_rate[2]

\* After successes and failures an agent's success_rate is strictly between
\* 0 and 100.
C21_Witness ==
    \E a \in AgentRefs :
        /\ recorded[a].ok >= 2
        /\ recorded[a].all - recorded[a].ok >= 2
        /\ agentObjs[a].success_rate[1] > 0
        /\ agentObjs[a].success_rate[1] < 100 * agentObjs[a].success_rate[2]

\* C22: an agent's executed_tasks is the number of outcomes recorded on it,
\* successes and failures together.
C22_CountIsOutcomes ==
    \A a \in AgentRefs : agentObjs[a].executed_tasks = recorded[a].all

\* C23: after the first outcome recorded on an agent its success_rate is
\* 100 if the attempt succeeded and 0 if it did not.
C23_FirstOutcomeSetsRate ==
    \A a \in AgentRefs :
        recorded[a].all = 1 =>
            agentObjs[a].success_rate = IF recorded[a].ok = 1 THEN <<100, 1>> ELSE <<0, 1>>

\* The first outcome of an agent was a failure and its success_rate is 0,
\* not the 100 it was registered with.
C23_Witness ==
    \E a \in AgentRefs :
        /\ recorded[a] = [ok |-> 0, all |-> 1]
        /\ agentObjs[a].success_rate = <<0, 1>>

\* C24: the sleeps a retry sequence has asked for add up to 2^k - 1 when
\* its attempt k is under way or has succeeded, to 2^(k + 1) - 1 while it
\* sleeps after attempt k, and to 2^max_retries - 1 when it has ended after
\* max_retries + 1 failed attempts.
C24_TotalBackoff ==
    \A o \in TaskRefs :
        /\ runs[o].pc \in {"none", "ready"} => outcomes[o].backoff = 0
        /\ runs[o].pc = "calling" => outcomes[o].backoff = 2 ^ runs[o].attempt - 1
        /\ runs[o].pc = "sleeping" => outcomes[o].backoff = 2 ^ (runs[o].attempt + 1) - 1
        /\ (runs[o].pc = "done" /\ outcomes[o].first_ok # 0)
              => outcomes[o].backoff = 2 ^ (outcomes[o].first_ok - 1) - 1
        /\ (runs[o].pc = "done" /\ outcomes[o].first_ok = 0)
              => /\ outcomes[o].calls = runs[o].max_retries + 1
                 /\ outcomes[o].backoff = 2 ^ runs[o].max_retries - 1

\* A sequence of an agent with retry_attempts = 3 has ended after four
\* failed attempts and sleeps of 7 time units in all.
C24_Witness ==
    \E o \in TaskRefs :
        /\ runs[o].pc = "done"
        /\ runs[o].max_retries = 3
        /\ outcomes[o].first_ok = 0
        /\ outcomes[o].calls = 4
        /\ outcomes[o].backoff = 7

\* C25: a task whose status is failed has a retry sequence that has ended
\* after max_retries + 1 attempts, none of them successful; a task whose
\* sequence has attempts left, its sleeps included, has status executing.
C25_FailedOnlyWhenExhausted ==
    \A o \in TaskRefs :
        /\ taskObjs[o].status = "failed"
              => /\ runs[o].pc = "done"
                 /\ outcomes[o].calls = runs[o].max_retries + 1
                 /\ outcomes[o].first_ok = 0
        /\ runs[o].pc \in {"ready", "calling", "sleeping"}
              => taskObjs[o].status = "executing"

\* C26: a task with status executing leads to the end of its retry
\* sequence with status completed or failed, unless a sleep of the sequence
\* ends beyond the horizon; and once the sequence has ended, the status and
\* the sequence stay as they are.
C26_SequencesEnd ==
    /\ \A o \in 1..LoopTaskObjs :
          (Len(taskObjs) >= o /\ taskObjs[o].status = "executing")
            ~> /\ Len(taskObjs) >= o
               /\ \/ /\ runs[o].pc = "done"
                     /\ taskObjs[o].status \in {"completed", "failed"}
                  \/ /\ runs[o].pc = "sleeping"
                     /\ runs[o].wake > LoopHorizon
    /\ [][\A o \in TaskRefs :
             runs[o].pc = "done"
               => /\ taskObjs'[o].status = taskObjs[o].status
                  /\ runs'[o] = runs[o]]_vars

\* A sequence has ended failed after a failed attempt, a sleep and a second
\* failed attempt, and the clock has moved on since.
C26_Witness ==
    \E o \in TaskRefs :
        /\ runs[o].pc = "done"
        /\ taskObjs[o].status = "failed"
        /\ outcomes[o].calls = 2
        /\ outcomes[o].backoff = 1
        /\ now > taskObjs[o].execution_time + 10

C28_BusyAgentStillSelected ==
    [][(loop' # loop /\ loop'.pc = "sleeping")
          => \A o \in Refs(tasks) :
                (/\ Due(taskObjs[o])
                 /\ \E a \in Refs(agents) : Eligible(agentObjs[a], taskObjs[o])
                 /\ \A a \in Refs(agents) :
                       Eligible(agentObjs[a], taskObjs[o])
                         => \E p \in TaskRefs \ {o} :
                               /\ runs[p].agent = a
                               /\ runs[p].pc \in {"ready", "calling", "sleeping"})
                  => /\ runs'[o].pc = "ready"
                     /\ \E p \in TaskRefs \ {o} :
                           /\ runs'[p].agent = runs'[o].agent
                           /\ runs'[p].pc \in {"ready", "calling", "sleeping"}]_vars

\* Two tasks are assigned to one agent; the sequence of the first sleeps
\* between two attempts while an attempt of the second is in the Executor.
C28_Witness ==
    /\ Len(taskObjs) = 2
    /\ taskObjs[1].assigned_agent = taskObjs[2].assigned_agent
    /\ runs[1].agent = runs[2].agent
    /\ runs[1].pc = "sleeping"
    /\ runs[2].pc = "calling"

\* C29: the monitor's low success rate warning is due for an agent exactly
\* when its success_rate is below 80 and more than 10 outcomes, successes
\* and failures together, have been recorded on it.
C29_WarningAfterTenOutcomes ==
    \A a \in AgentRefs :
        SuccessRateLow(agentObjs[a])
          <=> /\ FracLess(agentObjs[a].success_rate, <<80, 1>>)
              /\ recorded[a].all > 10

\* C30: the step that dispatches tasks is the whole scan and nothing else.
\* It happens when no Executor call is under way, leaves both registries,
\* the agents, the objects that exist and every sequence already started
\* as they are, records nothing, and every task it dispatches gets its
\* agent, its status and a sequence that has not run yet from one and the
\* same reading of the agents' registry.
C30_ScanIsOneStep ==
    [][(\E o \in TaskRefs : runs[o].pc = "none" /\ runs'[o].pc # "none")
          => /\ ~InCall
             /\ tasks' = tasks
             /\ agents' = agents
             /\ agentObjs' = agentObjs
             /\ Len(taskObjs') = Len(taskObjs)
             /\ outcomes' = outcomes
             /\ recorded' = recorded
             /\ now' = now
             /\ \A o \in TaskRefs :
                   IF runs[o].pc = "none" /\ runs'[o].pc # "none"
                   THEN /\ runs'[o].pc = "ready"
                        /\ runs'[o].attempt = 0
                        /\ taskObjs'[o].status = "executing"
                        /\ taskObjs'[o].assigned_agent =
                              agentObjs[runs'[o].agent].agent_id
                        /\ Eligible(agentObjs[runs'[o].agent], taskObjs[o])
                        /\ selection'[o].agents = agents
                        /\ selection'[o].agentObjs = agentObjs
                   ELSE /\ runs'[o] = runs[o]
                        /\ taskObjs'[o] = taskObjs[o]]_vars

\* One scan has dispatched two tasks to two different agents from the same
\* reading of the registry; neither sequence has run.
C30_Witness ==
    /\ now = 0
    /\ Len(taskObjs) = 2
    /\ runs[1].pc = "ready"
    /\ runs[2].pc = "ready"
    /\ runs[1].agent # runs[2].agent
    /\ selection[1] = selection[2]
    /\ Len(selection[1].agents) = 2

\* C31: a task that has a retry sequence keeps its assigned_agent and the
\* agent of the sequence in every step, the two name the same agent, and a
\* step in which an attempt of the sequence returns changes that agent's
\* object and no other, whether or not the agent is still eligible.
C31_RetriesStayOnAgent ==
    [][\A o \in TaskRefs :
          runs[o].pc # "none"
            => /\ runs'[o].agent = runs[o].agent
               /\ taskObjs'[o].assigned_agent = taskObjs[o].assigned_agent
               /\ taskObjs[o].assigned_agent = agentObjs[runs[o].agent].agent_id
               /\ outcomes'[o].calls > outcomes[o].calls
                     => /\ recorded'[runs[o].agent].all = recorded[runs[o].agent].all + 1
                        /\ \A a \in AgentRefs \ {runs[o].agent} :
                              /\ agentObjs'[a] = agentObjs[a]
                              /\ recorded'[a] = recorded[a]]_vars

\* A second attempt is in the Executor on an agent whose success_rate is
\* below its own threshold, while an agent registered after the dispatch is
\* eligible for the task with a higher priority.
C31_Witness ==
    \E o \in TaskRefs :
        /\ runs[o].pc = "calling"
        /\ runs[o].attempt = 1
        /\ ~Eligible(agentObjs[runs[o].agent], taskObjs[o])
        /\ \E a \in Refs(agents) :
              /\ a # runs[o].agent
              /\ a \notin Refs(selection[o].agents)
              /\ Eligible(agentObjs[a], taskObjs[o])
              /\ agentObjs[a].priority > agentObjs[runs[o].agent].priority

\* C32: an agent of the registry whose success_rate is below its threshold
\* and whose agent_id no retry sequence in progress is assigned to keeps
\* that success_rate in every step, and no step dispatches a task to it.
C32_IneligibleIdleStaysOut ==
    [][\A k \in Keys(agents) :
          LET a == Lookup(agents, k)
          IN  (/\ ~FracGeqInt(agentObjs[a].success_rate, agentObjs[a].success_threshold)
               /\ \A p \in TaskRefs :
                     runs[p].pc \in {"ready", "calling", "sleeping"}
                       => agentObjs[runs[p].agent].agent_id # k)
                => /\ k \in Keys(agents')
                   /\ agentObjs'[Lookup(agents', k)].success_rate
                         = agentObjs[a].success_rate
                   /\ \A p \in TaskRefs :
                         (runs[p].pc = "none" /\ runs'[p].pc # "none")
                           => agentObjs'[runs'[p].agent].agent_id # k]_vars

\* C33: a step in which an Executor call returns applies the outcome of
\* that call, and nothing else, to the statistics the agent has at that
\* moment and to the task's status; the agent objects change in no other
\* step; and the successes counted on an agent are always the successes of
\* the calls that returned on it.
C33_RecordingIsAtomic ==
    /\ [](\A a \in AgentRefs : agentObjs[a].executed_tasks = recorded[a].ok)
    /\ [][/\ \A o \in TaskRefs :
               outcomes'[o].calls > outcomes[o].calls
                 => LET a == runs[o].agent
                    IN  /\ outcomes'[o].calls = outcomes[o].calls + 1
                        /\ \E res \in ExecResults :
                              /\ agentObjs'[a] = AgentAfter(agentObjs[a], res)
                              /\ taskObjs'[o].status = StatusAfter(res)
                              /\ recorded'[a].all = recorded[a].all + 1
                              /\ recorded'[a].ok = recorded[a].ok
                                      + (IF res = "true" THEN 1 ELSE 0)
          /\ \A a \in AgentRefs :
               agentObjs'[a] # agentObjs[a]
                 => \E o \in TaskRefs :
                       /\ runs[o].agent = a
                       /\ outcomes'[o].calls > outcomes[o].calls]_vars

\* Two sequences of one agent have recorded on it in turn: two calls of the
\* first and one call of the second have returned, one of the three with
\* success.
C33_Witness ==
    /\ Len(taskObjs) = 2
    /\ runs[1].agent = runs[2].agent
    /\ outcomes[1].calls = 2
    /\ outcomes[2].calls = 1
    /\ outcomes[2].first_ok = 1
    /\ recorded[runs[1].agent].all = 3
    /\ recorded[runs[1].agent].ok = 1
    /\ agentObjs[runs[1].agent].executed_tasks = 1
    /\ ~FracGeqInt(agentObjs[runs[1].agent].success_rate, 100)

\* A step in which verify_sms_code was called for phone number p
VerifyStep(p) ==
    /\ smsHistory' # smsHistory
    /\ smsHistory'.last.op = "verify"
    /\ smsHistory'.last.phone = p

\* C34: a verify_sms_code call that succeeds leaves no entry for the phone
\* number; a call for a number without an entry fails with "no
\* verification code found" and leaves it without one; and a number
\* without an entry gets one only by a code being issued for it.
C34_CodeIsSingleUse ==
    [][\A p \in Phones :
          /\ VerifyStep(p)
                => /\ smsHistory'.last.ok => p \notin DOMAIN verification_codes'
                   /\ p \notin DOMAIN verification_codes
                         => /\ ~smsHistory'.last.ok
                            /\ smsHistory'.last.msg = "not_found"
                            /\ p \notin DOMAIN verification_codes'
          /\ (p \notin DOMAIN verification_codes /\ p \in DOMAIN verification_codes')
                => /\ smsHistory'.last.op = "send"
                   /\ smsHistory'.last.phone = p]_vars

\* The code issued for a number was submitted, compared once and accepted,
\* and submitted again within its ten minutes: the second call found no
\* entry.
C34_Witness ==
    \E p \in Phones :
        /\ now = 0
        /\ smsHistory.compared[p] = 1
        /\ p \notin DOMAIN verification_codes
        /\ smsHistory.last = [op |-> "verify", phone |-> p,
                              code |-> smsHistory.latest[p], ok |-> FALSE,
                              msg |-> "not_found", left |-> 0]

\* C35: the attempts stored for a number are between 0 and 3 and count the
\* submissions compared with its code; no code is compared with more than
\* 3 submissions; a call that succeeds is the 1st, 2nd or 3rd comparison;
\* and a call that finds an unexpired entry with 3 attempts fails with
\* "maximum attempts exceeded", compares nothing and deletes the entry,
\* whatever code it submits.
C35_ThreeSubmissionsAtMost ==
    /\ [](\A p \in Phones :
            /\ smsHistory.compared[p] \in 0..AttemptLimit
            /\ p \in DOMAIN verification_codes
                  => /\ verification_codes[p].attempts \in 0..3
                     /\ verification_codes[p].attempts = smsHistory.compared[p])
    /\ [][\A p \in Phones :
             VerifyStep(p)
               => /\ smsHistory'.last.ok
                        => /\ smsHistory'.compared[p] \in 1..3
                           /\ smsHistory'.compared[p] = smsHistory.compared[p] + 1
                  /\ (/\ p \in DOMAIN verification_codes
                      /\ now <= verification_codes[p].expires
                      /\ verification_codes[p].attempts = 3)
                        => /\ ~smsHistory'.last.ok
                           /\ smsHistory'.last.msg = "max_attempts"
                           /\ smsHistory'.compared[p] = smsHistory.compared[p]
                           /\ p \notin DOMAIN verification_codes']_vars

\* After three wrong submissions the code that was issued is submitted,
\* within its ten minutes: the call fails with "maximum attempts exceeded"
\* and the entry is gone.
C35_Witness ==
    \E p \in Phones :
        /\ now = 0
        /\ smsHistory.compared[p] = 3
        /\ p \notin DOMAIN verification_codes
        /\ smsHistory.last = [op |-> "verify", phone |-> p,
                              code |-> smsHistory.latest[p], ok |-> FALSE,
                              msg |-> "max_attempts", left |-> 0]

\* A step in which a code was issued for phone number p
IssueStep(p) ==
    /\ smsHistory' # smsHistory \/ verification_codes' # verification_codes
    /\ smsHistory'.last.op = "send"
    /\ smsHistory'.last.phone = p

\* C36: a code issued at minute t expires at t + 10; a verify_sms_code
\* call made after the expiry of the stored code fails with "verification
\* code expired" whatever the attempts and the submitted code are; a call
\* that succeeds is made no later than the expiry; and a call that fails
\* otherwise than by a code that does not match leaves no entry for the
\* number.
C36_ExpiredNeverVerifies ==
    [][\A p \in Phones :
          /\ IssueStep(p) => verification_codes'[p].expires = now + 10
          /\ VerifyStep(p)
                => /\ (/\ p \in DOMAIN verification_codes
                       /\ now > verification_codes[p].expires)
                         => /\ ~smsHistory'.last.ok
                            /\ smsHistory'.last.msg = "expired"
                   /\ smsHistory'.last.ok
                         => /\ p \in DOMAIN verification_codes
                            /\ now <= verification_codes[p].expires
                   /\ (~smsHistory'.last.ok /\ smsHistory'.last.msg # "invalid")
                         => p \notin DOMAIN verification_codes']_vars

\* The code issued for a number is submitted for the first time fifteen
\* minutes after it was issued: the call fails with "verification code
\* expired" and the entry is gone.
C36_Witness ==
    \E p \in Phones :
        /\ now = 15
        /\ smsHistory.compared[p] = 0
        /\ p \notin DOMAIN verification_codes
        /\ smsHistory.last = [op |-> "verify", phone |-> p,
                              code |-> smsHistory.latest[p], ok |-> FALSE,
                              msg |-> "expired", left |-> 0]

\* C37: the entry of a number holds the code issued last for it; a step
\* that issues a code for a number leaves it with that code, an expiry ten
\* minutes ahead and no attempts, and leaves the other numbers as they
\* are; the answer of the provider changes no entry; and a call that
\* succeeds submitted the code issued last.
C37_SendReplacesEntry ==
    /\ [](/\ DOMAIN verification_codes \subseteq Phones
          /\ \A p \in DOMAIN verification_codes :
                verification_codes[p].code = smsHistory.latest[p])
    /\ [][/\ \A p \in Phones :
               /\ IssueStep(p)
                     => /\ p \in DOMAIN verification_codes'
                        /\ verification_codes'[p] =
                              [code |-> smsHistory'.last.code,
                               expires |-> now + 10, attempts |-> 0]
                        /\ smsHistory'.latest[p] = smsHistory'.last.code
                        /\ smsHistory'.compared[p] = 0
                        /\ Del(verification_codes', p) = Del(verification_codes, p)
               /\ (VerifyStep(p) /\ smsHistory'.last.ok)
                     => smsHistory'.last.code = smsHistory.latest[p]
          /\ (smsHistory' # smsHistory /\ smsHistory'.last.op = "sent")
               => verification_codes' = verification_codes]_vars

\* A code has just been issued for a number whose earlier code had been
\* compared with two wrong submissions: the entry holds the new code with
\* no attempts, while the provider has not answered the send yet.
C37_Witness ==
    \E p \in Phones :
        /\ smsHistory.last.op = "send"
        /\ smsHistory.last.phone = p
        /\ smsHistory.last.msg = "replaced"
        /\ smsHistory.last.left = 2
        /\ verification_codes[p] = [code |-> smsHistory.last.code,
                                    expires |-> now + 10, attempts |-> 0]
        /\ Len(sending) = 1
        /\ sending[1].phone = p

====
